---- MODULE Spec2Model ----
(***************************************************************************)
(* Sidebar status badges for Storybook 8: the <SidebarTag> widget in its   *)
(* two variants.                                                           *)
(*                                                                         *)
(*   static-fetch variant  src/.storybook/components/SidebarTag.tsx        *)
(*       (lines 1-143: fetches index.json in an effect, keeps the resolved *)
(*       tags in component state)                                          *)
(*   host-API variant      src/unnamed/part_000                            *)
(*       (reads the index of the manager store through <Consumer> and      *)
(*       resolves the tags during render)                                  *)
(*                                                                         *)
(* Strings of the program (entry keys, item ids, tags) are sequences of    *)
(* one-character strings, so that template literals, startsWith and        *)
(* toUpperCase are computed character by character.  A JavaScript object   *)
(* with string keys is a sequence of entries in insertion order, which is  *)
(* the order of Object.keys and Object.entries.                            *)
(***************************************************************************)
EXTENDS Integers, Sequences, FiniteSets, TLC

VARIABLES
  index,       \* the generated index: index.json's "entries" / the store's state.index
  item,        \* the sidebar item the host passes to renderLabel: [type, id]
  phase,       \* "unrendered" before the host's first renderLabel call, then "rendered"
  tags,        \* static-fetch variant: the useState value of SidebarTagComponent
  inflight,    \* static-fetch variant: per captured item.id, the fetchTags() calls not yet settled
  orphaned,    \* static-fetch variant: unsettled fetchTags() calls of an unmounted instance
  hostBadges,  \* host-API variant: the badge titles of the latest render
  last         \* observation of the latest step: what ran, for which id, what it started or logged

vars == <<index, item, phase, tags, inflight, orphaned, hostBadges, last>>

(***************************************************************************)
(* Bounds of the model.                                                    *)
(***************************************************************************)
\* SpecResolve: entries per index, and tags summed over the entries of an index.
MaxEntries == 2
MaxTags == 2
\* Spec: the same two bounds for the index served to the mounted widget.
MaxServedEntries == 1
MaxServedTags == 1
\* Spec: fetchTags() calls that may be unsettled at one time.
MaxInflight == 2

(***************************************************************************)
(* Strings.                                                                *)
(***************************************************************************)
LowerCase == <<"a","b","c","d","e","f","g","h","i","j","k","l","m",
               "n","o","p","q","r","s","t","u","v","w","x","y","z">>
UpperCase == <<"A","B","C","D","E","F","G","H","I","J","K","L","M",
               "N","O","P","Q","R","S","T","U","V","W","X","Y","Z">>

Chars == {LowerCase[i] : i \in DOMAIN LowerCase} \cup
         {UpperCase[i] : i \in DOMAIN UpperCase} \cup {"-"}

\* String.prototype.toUpperCase on one character, then on a string.
UpperOf ==
  [c \in Chars |->
     IF \E i \in DOMAIN LowerCase : LowerCase[i] = c
     THEN UpperCase[CHOOSE i \in DOMAIN LowerCase : LowerCase[i] = c]
     ELSE c]

toUpperCaseChar(c) == UpperOf[c]

toUpperCase(s) == [i \in 1..Len(s) |-> toUpperCaseChar(s[i])]

\* String.prototype.startsWith.
startsWith(s, prefix) ==
  /\ Len(prefix) <= Len(s)
  /\ SubSeq(s, 1, Len(prefix)) = prefix

\* The template literals `${id}--docs` and `${id}--`.
DocsKey(id) == id \o <<"-","-","d","o","c","s">>
IdPrefix(id) == id \o <<"-","-">>

(***************************************************************************)
(* The status vocabulary and the badge configuration.                      *)
(***************************************************************************)
STATUS_DEPRECATED == <<"D","E","P","R","E","C","A","T","E","D">>
STATUS_BETA == <<"B","E","T","A">>
STATUS_NEW == <<"N","E","W">>

\* Object.values(STATUS), in declaration order.
StatusValues == <<STATUS_DEPRECATED, STATUS_BETA, STATUS_NEW>>

\* Variation: the BETA configuration carries the title of NEW.
defaultTagsConfigCopied(key) ==
  CASE key = STATUS_NEW -> "New"
    [] key = STATUS_BETA -> "New"
    [] key = STATUS_DEPRECATED -> "Deprecated"
    [] OTHER -> "undefined"

\* defaultTagsConfig[key].title; "undefined" when the key is not configured.
defaultTagsConfig(key) ==
  CASE key = STATUS_NEW -> "New"
    [] key = STATUS_BETA -> "Beta"
    [] key = STATUS_DEPRECATED -> "Deprecated"
    [] OTHER -> "undefined"

(***************************************************************************)
(* Entries.  An entry is [key |-> k] (no tags list) or                     *)
(* [key |-> k, tags |-> l].                                                *)
(***************************************************************************)
HasTags(e) == "tags" \in DOMAIN e

HasKey(data, key) == \E i \in DOMAIN data : data[i].key = key
Lookup(data, key) == data[CHOOSE i \in DOMAIN data : data[i].key = key]
FirstIndex(S) == CHOOSE i \in S : \A j \in S : i <= j

(***************************************************************************)
(* Host-API variant: isStatus, filterTags, getTags, the render.            *)
(***************************************************************************)
isStatus(value) == \E i \in DOMAIN StatusValues : StatusValues[i] = value

\* Variation: the tag is compared as written, not upper-cased.
IsStatusTagCaseSensitive(tag) == isStatus(tag)

IsStatusTag(tag) == isStatus(toUpperCase(tag))

\* tags?.filter(tag => isStatus(tag.toUpperCase())) || []
\* The argument is <<>> for undefined and <<l>> for the list l.
filterTags(optTags) ==
  IF optTags = <<>> THEN <<>> ELSE SelectSeq(optTags[1], IsStatusTag)

\* e.tags as filterTags takes it.
OptTags(e) == IF HasTags(e) THEN <<e.tags>> ELSE <<>>

\* data[`${itemId}--docs`]?.tags
DocsTags(data, itemId) ==
  IF HasKey(data, DocsKey(itemId)) THEN OptTags(Lookup(data, DocsKey(itemId))) ELSE <<>>

\* Variation: the `--docs` entry gets no precedence; the first tagged entry of
\* the component is taken.
getTagsScanOnly(data, itemId) ==
  LET hits == {i \in DOMAIN data :
                 /\ startsWith(data[i].key, IdPrefix(itemId))
                 /\ Len(filterTags(OptTags(data[i]))) > 0}
  IN  IF hits # {} THEN filterTags(OptTags(data[FirstIndex(hits)])) ELSE <<>>

getTags(data, itemId) ==
  LET direct == filterTags(DocsTags(data, itemId))
      hits == {i \in DOMAIN data :
                 /\ startsWith(data[i].key, IdPrefix(itemId))
                 /\ Len(filterTags(OptTags(data[i]))) > 0}
  IN  IF Len(direct) = 0 /\ hits # {}
      THEN filterTags(OptTags(data[FirstIndex(hits)]))
      ELSE direct

\* tags.map(...): null for a tag without configuration, else a <span> with the title.
HostRender(ts) ==
  LET configured(tag) == defaultTagsConfig(toUpperCase(tag)) # "undefined"
      shown == SelectSeq(ts, configured)
  IN  [i \in 1..Len(shown) |-> defaultTagsConfig(toUpperCase(shown[i]))]

(***************************************************************************)
(* Static-fetch variant: the body of fetchTags after the response is       *)
(* parsed, and the render.                                                 *)
(***************************************************************************)
\* Object.values(STATUS).includes(tag.toUpperCase())
IncludesStatus(tag) == \E i \in DOMAIN StatusValues : StatusValues[i] = toUpperCase(tag)

\* Variation: the fallback takes the first entry of the component that has a
\* tags list, without asking that one of its tags is a status.
fetchTagsResolveAnyTagged(entries, itemId) ==
  LET docsTags ==
        IF /\ HasKey(entries, DocsKey(itemId))
           /\ HasTags(Lookup(entries, DocsKey(itemId)))
        THEN SelectSeq(Lookup(entries, DocsKey(itemId)).tags, IncludesStatus)
        ELSE <<>>
      found == {i \in DOMAIN entries :
                  /\ startsWith(entries[i].key, IdPrefix(itemId))
                  /\ HasTags(entries[i])}
  IN  IF Len(docsTags) = 0 /\ found # {}
      THEN SelectSeq(entries[FirstIndex(found)].tags, IncludesStatus)
      ELSE docsTags

\* Variation: the tags of the `--docs` entry are taken unfiltered.
fetchTagsResolveDocsUnfiltered(entries, itemId) ==
  LET docsTags ==
        IF /\ HasKey(entries, DocsKey(itemId))
           /\ HasTags(Lookup(entries, DocsKey(itemId)))
        THEN Lookup(entries, DocsKey(itemId)).tags
        ELSE <<>>
      found == {i \in DOMAIN entries :
                  /\ startsWith(entries[i].key, IdPrefix(itemId))
                  /\ HasTags(entries[i])
                  /\ \E j \in DOMAIN entries[i].tags : IncludesStatus(entries[i].tags[j])}
  IN  IF Len(docsTags) = 0 /\ found # {}
      THEN SelectSeq(entries[FirstIndex(found)].tags, IncludesStatus)
      ELSE docsTags

fetchTagsResolve(entries, itemId) ==
  LET docsTags ==
        IF /\ HasKey(entries, DocsKey(itemId))
           /\ HasTags(Lookup(entries, DocsKey(itemId)))
        THEN SelectSeq(Lookup(entries, DocsKey(itemId)).tags, IncludesStatus)
        ELSE <<>>
      found == {i \in DOMAIN entries :
                  /\ startsWith(entries[i].key, IdPrefix(itemId))
                  /\ HasTags(entries[i])
                  /\ \E j \in DOMAIN entries[i].tags : IncludesStatus(entries[i].tags[j])}
  IN  IF Len(docsTags) = 0 /\ found # {}
      THEN SelectSeq(entries[FirstIndex(found)].tags, IncludesStatus)
      ELSE docsTags

\* tags.map(tag => <span>{defaultTagsConfig[tag.toUpperCase()].title}</span>):
\* reading .title of an undefined configuration throws a TypeError.
FetchRender(ts) ==
  [i \in 1..Len(ts) |->
     IF defaultTagsConfig(toUpperCase(ts[i])) = "undefined"
     THEN "TypeError"
     ELSE defaultTagsConfig(toUpperCase(ts[i]))]

(***************************************************************************)
(* The inputs: item types and ids, entry keys, tags, indexes.              *)
(***************************************************************************)
IdA == <<"a">>
IdAB == <<"a","b">>
Ids == {IdA, IdAB}

\* "component" and two of the other types renderLabel is called with.
Types == {"component", "docs", "group"}
Items == [type : Types, id : Ids]

\* Entry keys of the form <componentId>--<storyName>.  "ab--x" starts with
\* "a" but not with "a--".
IndexKeys == {IdA \o <<"-","-","d","o","c","s">>,
              IdA \o <<"-","-","x">>,
              IdA \o <<"-","-","y">>,
              IdAB \o <<"-","-","x">>}

\* Free-text tags: two statuses as written in the enum's case or not, one
\* status in mixed case, and a tag that is no status.
TagPool == {<<"N","E","W">>,
            <<"b","e","t","a">>,
            <<"D","e","p","r","e","c","a","t","e","d">>,
            <<"d","e","v">>}

\* The entries with key k carrying at most g tags.
EntriesFor(k, g) ==
  {[key |-> k]} \cup
  {[key |-> k, tags |-> l] : l \in UNION {[1..n -> TagPool] : n \in 0..g}}

TagCount(e) == IF HasTags(e) THEN Len(e.tags) ELSE 0

RECURSIVE TagTotal(_)
TagTotal(data) ==
  IF data = <<>> THEN 0 ELSE TagCount(Head(data)) + TagTotal(Tail(data))

(***************************************************************************)
(* The widget.                                                             *)
(***************************************************************************)
NoId == <<>>
\* The row's item before renderLabel was called with one.
NoItem == [type |-> "none", id |-> NoId]

\* Variation: the switch has a second case that renders SidebarTagComponent.
IsComponentCaseOrDocs(type) == type \in {"component", "docs"}

\* SidebarTag's switch (item.type): the case that renders SidebarTagComponent.
IsComponentCase(type) == type = "component"

\* An instance of the static-fetch SidebarTagComponent is mounted.
Mounted == phase = "rendered" /\ IsComponentCase(item.type)

RECURSIVE SumOver(_, _)
SumOver(f, S) ==
  IF S = {} THEN 0
  ELSE LET x == CHOOSE x \in S : TRUE IN f[x] + SumOver(f, S \ {x})

Unsettled == SumOver(inflight, Ids) + orphaned

\* What the static-fetch variant shows.
FetchBadges == IF Mounted THEN FetchRender(tags) ELSE <<>>

Observed(op, id, started, storeRead, logged) ==
  [op |-> op, id |-> id, started |-> started, storeRead |-> storeRead, logged |-> logged]

\* The state before the build step has written an entry and before the host's
\* first call of renderLabel for the row.
Init ==
  /\ index = <<>>
  /\ item = NoItem
  /\ phase = "unrendered"
  /\ tags = <<>>
  /\ inflight = [i \in Ids |-> 0]
  /\ orphaned = 0
  /\ hostBadges = <<>>
  /\ last = Observed("none", NoId, FALSE, FALSE, FALSE)

\* The build step writes one more entry of the index, before the manager renders
\* the sidebar: at most maxEntries entries, at most maxTags tags in all.
IndexerAddsEntry(maxEntries, maxTags) ==
  /\ phase = "unrendered"
  /\ Len(index) < maxEntries
  /\ \E k \in {k \in IndexKeys : ~HasKey(index, k)} :
       \E e \in EntriesFor(k, maxTags - TagTotal(index)) :
         index' = Append(index, e)
  /\ UNCHANGED <<item, phase, tags, inflight, orphaned, hostBadges, last>>

\* Host-API variant: SidebarTag(newItem) rendered by renderLabel.  The
\* Consumer's mapper reads state.index only inside SidebarTagComponent.
HostSidebarTag(newItem) ==
  hostBadges' = IF IsComponentCase(newItem.type)
                THEN HostRender(getTags(index, newItem.id))
                ELSE <<>>

\* Static-fetch variant: SidebarTag(newItem) rendered by renderLabel, with
\* React's mounting: a new instance starts with tags = [] and runs the effect;
\* a kept instance runs the effect again when item.id changed; an unmounted
\* instance leaves its unsettled fetchTags() calls behind.
FetchSidebarTag(wasMounted, newItem) ==
  LET now == IsComponentCase(newItem.type)
      effect == now /\ (~wasMounted \/ newItem.id # item.id)
  IN  /\ effect => Unsettled < MaxInflight
      /\ tags' = IF now /\ wasMounted THEN tags ELSE <<>>
      /\ orphaned' = IF wasMounted /\ ~now THEN orphaned + SumOver(inflight, Ids)
                     ELSE orphaned
      /\ inflight' = IF wasMounted /\ ~now THEN [i \in Ids |-> 0]
                     ELSE IF effect THEN [inflight EXCEPT ![newItem.id] = @ + 1]
                     ELSE inflight
      /\ last' = Observed("render", newItem.id, effect, now, FALSE)

\* The host calls renderLabel(newItem) for the row for the first time.
FirstRender(newItem) ==
  /\ phase = "unrendered"
  /\ phase' = "rendered"
  /\ item' = newItem
  /\ HostSidebarTag(newItem)
  /\ FetchSidebarTag(FALSE, newItem)
  /\ UNCHANGED index

\* The host calls renderLabel again, with the same or another item.
Rerender(newItem) ==
  /\ phase = "rendered"
  /\ item' = newItem
  /\ HostSidebarTag(newItem)
  /\ FetchSidebarTag(Mounted, newItem)
  /\ UNCHANGED <<index, phase>>

\* Variation: the `--docs` entry's tags are filtered in place.
FetchResolvesInPlace(id) ==
  /\ inflight[id] > 0
  /\ inflight' = [inflight EXCEPT ![id] = @ - 1]
  /\ tags' = fetchTagsResolve(index, id)
  /\ index' = [i \in DOMAIN index |->
                 IF index[i].key = DocsKey(id) /\ HasTags(index[i])
                 THEN [index[i] EXCEPT !.tags = SelectSeq(@, IncludesStatus)]
                 ELSE index[i]]
  /\ last' = Observed("fetchOk", id, FALSE, FALSE, FALSE)
  /\ UNCHANGED <<item, phase, orphaned, hostBadges>>

\* fetchTags() of the mounted instance, started for id, runs to setTags(filteredTags).
FetchResolves(id) ==
  /\ inflight[id] > 0
  /\ inflight' = [inflight EXCEPT ![id] = @ - 1]
  /\ tags' = fetchTagsResolve(index, id)
  /\ last' = Observed("fetchOk", id, FALSE, FALSE, FALSE)
  /\ UNCHANGED <<index, item, phase, orphaned, hostBadges>>

\* What makes the try block throw: fetch rejects, response.json() rejects,
\* or data.entries is undefined.
Failures == {"rejected", "unparsable", "noEntries"}

\* Variation: the catch block logs and leaves the tags as they are.
FetchFailsKeepingTags(id, cause) ==
  /\ inflight[id] > 0
  /\ cause \in Failures
  /\ inflight' = [inflight EXCEPT ![id] = @ - 1]
  /\ last' = Observed("fetchFail", id, FALSE, FALSE, TRUE)
  /\ UNCHANGED <<index, item, phase, tags, orphaned, hostBadges>>

\* fetchTags() of the mounted instance, started for id, ends in the catch block.
FetchFails(id, cause) ==
  /\ inflight[id] > 0
  /\ cause \in Failures
  /\ inflight' = [inflight EXCEPT ![id] = @ - 1]
  /\ tags' = <<>>
  /\ last' = Observed("fetchFail", id, FALSE, FALSE, TRUE)
  /\ UNCHANGED <<index, item, phase, orphaned, hostBadges>>

\* fetchTags() of an unmounted instance settles: setTags has no instance to
\* update; the catch block still logs.
OrphanSettles(failed) ==
  /\ orphaned > 0
  /\ orphaned' = orphaned - 1
  /\ last' = Observed("orphanSettled", NoId, FALSE, FALSE, failed)
  /\ UNCHANGED <<index, item, phase, tags, inflight, hostBadges>>

Next ==
  \/ IndexerAddsEntry(MaxServedEntries, MaxServedTags)
  \/ \E newItem \in Items : FirstRender(newItem)
  \/ \E newItem \in Items : Rerender(newItem)
  \/ \E id \in Ids : FetchResolves(id)
  \/ \E id \in Ids, cause \in Failures : FetchFails(id, cause)
  \/ \E failed \in BOOLEAN : OrphanSettles(failed)

Spec == Init /\ [][Next]_vars

\* One render of one item and the settling of its lookup, over the larger indexes.
NextResolve ==
  \/ IndexerAddsEntry(MaxEntries, MaxTags)
  \/ \E newItem \in Items : FirstRender(newItem)
  \/ \E id \in Ids : FetchResolves(id)
  \/ \E id \in Ids, cause \in Failures : FetchFails(id, cause)

SpecResolve == Init /\ [][NextResolve]_vars

TypeOK ==
  /\ item \in Items \cup {NoItem}
  /\ phase = "unrendered" <=> item = NoItem
  /\ phase \in {"unrendered", "rendered"}
  /\ \A i \in Ids : inflight[i] \in 0..MaxInflight
  /\ orphaned \in 0..MaxInflight
  /\ Unsettled <= MaxInflight

(***************************************************************************)
(* The properties, stated apart from the widget's own definitions.         *)
(***************************************************************************)
\* The status vocabulary, and a tag recognized as a status whatever its case.
Vocabulary == {STATUS_NEW, STATUS_BETA, STATUS_DEPRECATED}
Recognized(tag) == toUpperCase(tag) \in Vocabulary

\* The recognized tags of an entry, in the entry's order.
RecognizedTags(e) == IF HasTags(e) THEN SelectSeq(e.tags, Recognized) ELSE <<>>

\* The fixed title of a recognized tag's status.
TitleOf(tag) ==
  IF toUpperCase(tag) = STATUS_NEW THEN "New"
  ELSE IF toUpperCase(tag) = STATUS_BETA THEN "Beta"
  ELSE "Deprecated"

\* One badge per recognized tag of e, in order.
BadgesOf(e) == [i \in 1..Len(RecognizedTags(e)) |-> TitleOf(RecognizedTags(e)[i])]

\* key is id, then "--", then anything.
IsEntryOf(key, id) ==
  /\ Len(key) >= Len(id) + 2
  /\ \A j \in 1..Len(id) : key[j] = id[j]
  /\ key[Len(id) + 1] = "-"
  /\ key[Len(id) + 2] = "-"

\* The positions of the entries of component id that carry a recognized tag.
StatusEntries(data, id) ==
  {i \in DOMAIN data : IsEntryOf(data[i].key, id) /\ RecognizedTags(data[i]) # <<>>}

\* The `--docs` entry of id exists and carries a recognized tag.
DocsHasStatus(data, id) ==
  \E i \in DOMAIN data :
    /\ data[i].key = id \o <<"-","-","d","o","c","s">>
    /\ RecognizedTags(data[i]) # <<>>

DocsEntry(data, id) ==
  data[CHOOSE i \in DOMAIN data : data[i].key = id \o <<"-","-","d","o","c","s">>]

\* The first entry of id, in key order, that carries a recognized tag.
FirstStatusEntry(data, id) ==
  data[CHOOSE i \in StatusEntries(data, id) : \A j \in StatusEntries(data, id) : i <= j]

\* A component item has been rendered.
ComponentRendered == phase = "rendered" /\ item.type = "component"

\* The static-fetch variant's lookup for the rendered item has just succeeded.
LookupSucceeded == ComponentRendered /\ last.op = "fetchOk" /\ last.id = item.id

\* C1: when the entry "<id>--docs" carries a recognized status tag, the badges
\* are exactly that entry's recognized tags, one badge per tag in the entry's
\* order, whatever the other entries hold: in the host-API variant at every
\* render, in the static-fetch variant once the lookup has succeeded.
C1_DirectDocsMatch ==
  (ComponentRendered /\ DocsHasStatus(index, item.id)) =>
    /\ hostBadges = BadgesOf(DocsEntry(index, item.id))
    /\ LookupSucceeded => FetchBadges = BadgesOf(DocsEntry(index, item.id))

\* C1's case: "<id>--docs" tagged ["NEW"] next to another tagged entry of the
\* component that comes first in the index, and exactly one badge "New" in
\* both variants.
C1_Witness ==
  /\ LookupSucceeded
  /\ DocsHasStatus(index, item.id)
  /\ DocsEntry(index, item.id).tags = <<STATUS_NEW>>
  /\ Len(index) = 2
  /\ index[2] = DocsEntry(index, item.id)
  /\ RecognizedTags(index[1]) # <<>>
  /\ IsEntryOf(index[1].key, item.id)
  /\ hostBadges = <<"New">>
  /\ FetchBadges = <<"New">>

\* C2: when "<id>--docs" is absent or carries no recognized tag, the badges are
\* the recognized tags of the first entry, in key order, whose key starts with
\* "<id>--" and that carries a recognized tag (case-insensitively).
C2_FallbackToSibling ==
  (ComponentRendered /\ ~DocsHasStatus(index, item.id)
     /\ StatusEntries(index, item.id) # {}) =>
    /\ hostBadges = BadgesOf(FirstStatusEntry(index, item.id))
    /\ LookupSucceeded => FetchBadges = BadgesOf(FirstStatusEntry(index, item.id))

\* C2's case: no docs entry, a sibling story tagged ["beta"], one badge "Beta".
C2_Witness ==
  /\ LookupSucceeded
  /\ \A i \in DOMAIN index : index[i].key # item.id \o <<"-","-","d","o","c","s">>
  /\ StatusEntries(index, item.id) # {}
  /\ FirstStatusEntry(index, item.id).tags = <<<<"b","e","t","a">>>>
  /\ hostBadges = <<"Beta">>
  /\ FetchBadges = <<"Beta">>

\* The entry the lookup chooses for id: the docs entry when it carries a
\* recognized tag, else the first entry of id that does; <<>> when none does.
ChosenTags(data, id) ==
  IF DocsHasStatus(data, id) THEN DocsEntry(data, id).tags
  ELSE IF StatusEntries(data, id) # {} THEN FirstStatusEntry(data, id).tags
  ELSE <<>>

RECURSIVE CountRecognized(_)
CountRecognized(ts) ==
  IF ts = <<>> THEN 0
  ELSE (IF Recognized(Head(ts)) THEN 1 ELSE 0) + CountRecognized(Tail(ts))

\* badges holds one badge per recognized tag of ts, with the status's fixed
\* title, and nothing for the other tags.
FiltersTo(ts, badges) ==
  /\ Len(badges) = CountRecognized(ts)
  /\ \A i \in DOMAIN badges : badges[i] \in {"New", "Beta", "Deprecated"}
  /\ badges = [i \in 1..Len(SelectSeq(ts, Recognized)) |-> TitleOf(SelectSeq(ts, Recognized)[i])]

\* C4: of the tags of the chosen entry, a tag that does not upper-case to NEW,
\* BETA or DEPRECATED gives no badge and each tag that does gives one badge with
\* the status's fixed title: as many badges as recognized tags, every title in
\* the vocabulary.
C4_StatusFiltering ==
  ComponentRendered =>
    /\ FiltersTo(ChosenTags(index, item.id), hostBadges)
    /\ LookupSucceeded => FiltersTo(ChosenTags(index, item.id), FetchBadges)

\* C4's case: the chosen entry carries an unrecognized tag and a recognized one
\* in another case than the enum's, and the one badge is the status's title.
C4_Witness ==
  /\ LookupSucceeded
  /\ Len(ChosenTags(index, item.id)) = 2
  /\ ~Recognized(ChosenTags(index, item.id)[1])
  /\ ChosenTags(index, item.id)[2] = <<"D","e","p","r","e","c","a","t","e","d">>
  /\ hostBadges = <<"Deprecated">>
  /\ FetchBadges = <<"Deprecated">>

\* C7: the tag list the static-fetch variant stores after a successful fetch
\* is the tag list getTags of the host-API variant returns for the same
\* entries and id.
C7_VariantsAgree ==
  (phase = "rendered" /\ last.op = "fetchOk") => tags = getTags(index, last.id)

\* C7's case: a successful fetch over two entries of the component, the first
\* without a recognized tag, that stored the second entry's tag.
C7_Witness ==
  /\ phase = "rendered" /\ last.op = "fetchOk"
  /\ Len(index) = 2
  /\ \A i \in DOMAIN index : IsEntryOf(index[i].key, last.id)
  /\ HasTags(index[1]) /\ index[1].tags # <<>> /\ RecognizedTags(index[1]) = <<>>
  /\ tags # <<>>
  /\ tags = RecognizedTags(index[2])

\* C3: when no entry whose key starts with "<id>--" carries a recognized
\* status tag, no badge is rendered for the component, in every state: before,
\* during and after the lookup.
C3_NoStatusNoBadge ==
  (ComponentRendered /\ StatusEntries(index, item.id) = {}) =>
    hostBadges = <<>> /\ FetchBadges = <<>>

\* C5: for an item whose type is not "component", nothing is rendered and the
\* render starts no lookup: no read of the store's index, no fetch of
\* index.json, and no fetch of the row's instance is pending.
C5_OnlyComponentsLookUp ==
  (phase = "rendered" /\ item.type # "component") =>
    /\ hostBadges = <<>>
    /\ FetchBadges = <<>>
    /\ \A id \in Ids : inflight[id] = 0
    /\ last.op = "render" => ~last.started /\ ~last.storeRead

\* C5's case: a docs item was rendered over an index in which its id carries a
\* status.
C5_Witness ==
  /\ phase = "rendered"
  /\ item.type = "docs"
  /\ last.op = "render"
  /\ StatusEntries(index, item.id) # {}
  /\ hostBadges = <<>>

\* C6: when the fetch rejects, the response does not parse or resolving
\* throws, the error is logged, the tags are the empty list and no badge is
\* rendered: nothing of an earlier successful lookup stays displayed.
C6_FailureResetsTags ==
  (phase = "rendered" /\ last.op = "fetchFail") =>
    last.logged /\ tags = <<>> /\ FetchBadges = <<>>

\* C6's case: a lookup failed for a component whose entries carry a status.
C6_Witness ==
  /\ ComponentRendered
  /\ last.op = "fetchFail"
  /\ last.id = item.id
  /\ last.logged
  /\ StatusEntries(index, item.id) # {}
  /\ tags = <<>>

\* A step of the widget: a render or the settling of a lookup (every step that
\* ends with the row rendered).
\* C8: the widget's steps leave the index as it is, keys, tags and their order,
\* and the settling of a lookup, successful or failed, leaves the item as it is.
C8_ReadOnly ==
  [][phase' = "rendered" =>
       /\ index' = index
       /\ last'.op \in {"fetchOk", "fetchFail", "orphanSettled"} => item' = item]_vars

\* C8's case: a lookup succeeded over an entry with a tags list that holds a
\* tag the filter drops.
C8_Witness ==
  /\ phase = "rendered"
  /\ last.op = "fetchOk"
  /\ \E i \in DOMAIN index :
       /\ index[i].key = last.id \o <<"-","-","d","o","c","s">>
       /\ HasTags(index[i])
       /\ index[i].tags = <<<<"d","e","v">>>>

\* C9: when item.id changed while an earlier fetch was in flight, then once
\* every fetch has settled the displayed tags are those resolved for the
\* current item.id: here, after a last fetch that succeeded.
C9_CurrentIdWins ==
  (ComponentRendered /\ last.op = "fetchOk" /\ \A id \in Ids : inflight[id] = 0) =>
    tags = fetchTagsResolve(index, item.id)

\* C10: every element of the tags state upper-cases to NEW, BETA or DEPRECATED,
\* so the render finds a configuration for each of them.
C10_TagsAreStatuses ==
  /\ \A i \in DOMAIN tags : Recognized(tags[i])
  /\ \A i \in DOMAIN FetchRender(tags) : FetchRender(tags)[i] # "TypeError"

\* C10's case: a fetch stored in the tags state a status tag written in
\* lower case, and the render shows its badge.
C10_Witness ==
  /\ ComponentRendered
  /\ last.op = "fetchOk"
  /\ tags = <<<<"b","e","t","a">>>>
  /\ FetchBadges = <<"Beta">>

====
